---- MODULE Spec2Model ----
(***************************************************************************)
(* The offline request-caching layer of FoodieBot: the service worker's    *)
(* fetch listener, its caching strategies, the offline fallback, the       *)
(* install/activate lifecycle, the message channel and background sync.    *)
(***************************************************************************)
EXTENDS Integers, Sequences, FiniteSets, TLC

\* ---------------------------------------------------------------- bounds
\* fetch events dispatched to the worker
MaxRequests == 2
\* messages posted and sync events dispatched to the worker
MaxSignals == 1
\* sync events dispatched while orders are waiting
MaxSyncRuns == 2

\* ------------------------------------------------------------- constants
STATIC_CACHE == "foodiebot-static-v1"
DYNAMIC_CACHE == "foodiebot-dynamic-v1"
API_CACHE == "foodiebot-api-v1"
\* a partition left behind by an earlier generation of the worker
OLD_STATIC_CACHE == "foodiebot-static-v0"

STATIC_ASSETS ==
    << "/",
       "/index.html",
       "/styles/style.css",
       "/js/main.js",
       "/js/chatbot.js",
       "/js/animations.js",
       "/js/location.js",
       "/js/payment.js",
       "/js/qr-code.js",
       "/js/error-handler.js",
       "/js/performance-optimizer.js",
       "/js/security-manager.js",
       "/config.js",
       "/assets/favicon-32x32.png",
       "/assets/favicon-16x16.png",
       "/assets/apple-touch-icon.png",
       "https://fonts.googleapis.com/css2?family=Poppins:wght@300;400;500;600;700&display=swap",
       "https://cdnjs.cloudflare.com/ajax/libs/font-awesome/6.4.0/css/all.min.css" >>

Chars(s) ==
    CASE s = "/" ->
           <<"/">>
      [] s = "/index.html" ->
           <<"/","i","n","d","e","x",".","h","t","m","l">>
      [] s = "/styles/style.css" ->
           <<"/","s","t","y","l","e","s","/","s","t","y","l","e",".","c","s","s">>
      [] s = "/js/main.js" ->
           <<"/","j","s","/","m","a","i","n",".","j","s">>
      [] s = "/js/chatbot.js" ->
           <<"/","j","s","/","c","h","a","t","b","o","t",".","j","s">>
      [] s = "/js/animations.js" ->
           <<"/","j","s","/","a","n","i","m","a","t","i","o","n","s",".","j","s">>
      [] s = "/js/location.js" ->
           <<"/","j","s","/","l","o","c","a","t","i","o","n",".","j","s">>
      [] s = "/js/payment.js" ->
           <<"/","j","s","/","p","a","y","m","e","n","t",".","j","s">>
      [] s = "/js/qr-code.js" ->
           <<"/","j","s","/","q","r","-","c","o","d","e",".","j","s">>
      [] s = "/js/error-handler.js" ->
           <<"/","j","s","/","e","r","r","o","r","-","h","a","n","d","l","e","r",".","j","s">>
      [] s = "/js/performance-optimizer.js" ->
           <<"/","j","s","/","p","e","r","f","o","r","m","a","n","c","e","-","o","p","t","i","m","i","z","e","r",".","j","s">>
      [] s = "/js/security-manager.js" ->
           <<"/","j","s","/","s","e","c","u","r","i","t","y","-","m","a","n","a","g","e","r",".","j","s">>
      [] s = "/config.js" ->
           <<"/","c","o","n","f","i","g",".","j","s">>
      [] s = "/assets/favicon-32x32.png" ->
           <<"/","a","s","s","e","t","s","/","f","a","v","i","c","o","n","-","3","2","x","3","2",".","p","n","g">>
      [] s = "/assets/favicon-16x16.png" ->
           <<"/","a","s","s","e","t","s","/","f","a","v","i","c","o","n","-","1","6","x","1","6",".","p","n","g">>
      [] s = "/assets/apple-touch-icon.png" ->
           <<"/","a","s","s","e","t","s","/","a","p","p","l","e","-","t","o","u","c","h","-","i","c","o","n",".","p","n","g">>
      [] s = "https://fonts.googleapis.com/css2?family=Poppins:wght@300;400;500;600;700&display=swap" ->
           <<"h","t","t","p","s",":","/","/","f","o","n","t","s",".","g","o","o","g","l","e","a","p","i","s",".","c","o","m","/","c","s","s","2","?","f","a","m","i","l","y","=","P","o","p","p","i","n","s",":","w","g","h","t","@","3","0","0",";","4","0","0",";","5","0","0",";","6","0","0",";","7","0","0","&","d","i","s","p","l","a","y","=","s","w","a","p">>
      [] s = "https://cdnjs.cloudflare.com/ajax/libs/font-awesome/6.4.0/css/all.min.css" ->
           <<"h","t","t","p","s",":","/","/","c","d","n","j","s",".","c","l","o","u","d","f","l","a","r","e",".","c","o","m","/","a","j","a","x","/","l","i","b","s","/","f","o","n","t","-","a","w","e","s","o","m","e","/","6",".","4",".","0","/","c","s","s","/","a","l","l",".","m","i","n",".","c","s","s">>
      [] s = "/api/restaurants" ->
           <<"/","a","p","i","/","r","e","s","t","a","u","r","a","n","t","s">>
      [] s = "/api/orders" ->
           <<"/","a","p","i","/","o","r","d","e","r","s">>
      [] s = "/api/app.js" ->
           <<"/","a","p","i","/","a","p","p",".","j","s">>
      [] s = "/images/x.webp" ->
           <<"/","i","m","a","g","e","s","/","x",".","w","e","b","p">>
      [] s = "/images/x.png" ->
           <<"/","i","m","a","g","e","s","/","x",".","p","n","g">>
      [] s = "/menu" ->
           <<"/","m","e","n","u">>
      [] OTHER -> <<>>

API_ENDPOINTS == << "/api/restaurants", "/api/menu", "/api/search" >>

ApiEndpointChars(e) ==
    CASE e = "/api/restaurants" -> Chars("/api/restaurants")
      [] e = "/api/menu" -> <<"/","a","p","i","/","m","e","n","u">>
      [] e = "/api/search" -> <<"/","a","p","i","/","s","e","a","r","c","h">>

CACHE_FIRST == "cache-first"
NETWORK_FIRST == "network-first"
STALE_WHILE_REVALIDATE == "stale-while-revalidate"
NETWORK_ONLY == "network-only"
CACHE_ONLY == "cache-only"

\* ------------------------------------------------------- string helpers
Range(s) == { s[i] : i \in DOMAIN s }

\* String.prototype.endsWith / startsWith on character sequences
endsWith(p, a) ==
    /\ Len(a) <= Len(p)
    /\ SubSeq(p, Len(p) - Len(a) + 1, Len(p)) = a

startsWith(p, a) ==
    /\ Len(a) <= Len(p)
    /\ SubSeq(p, 1, Len(a)) = a

\* index of the first occurrence of character ch in s at or after from; 0 if none
IndexOf(s, ch, from) ==
    LET hits == { i \in from..Len(s) : s[i] = ch }
    IN  IF hits = {} THEN 0 ELSE CHOOSE i \in hits : \A j \in hits : i <= j

Scheme == <<"h","t","t","p","s",":","/","/">>

\* new URL(request.url).pathname: the part after the origin, up to the query;
\* a URL without a scheme is resolved against the worker's own origin
ParsePathname(s) ==
    LET afterOrigin ==
            IF startsWith(s, Scheme)
                THEN LET slash == IndexOf(s, "/", Len(Scheme) + 1)
                     IN  IF slash = 0 THEN <<"/">> ELSE SubSeq(s, slash, Len(s))
                ELSE s
        q == IndexOf(afterOrigin, "?", 1)
    IN  IF q = 0 THEN afterOrigin ELSE SubSeq(afterOrigin, 1, q - 1)

\* the urls that occur as requests, manifest entries or message payloads
Urls ==
    Range(STATIC_ASSETS)
    \cup { "/api/restaurants", "/api/orders", "/api/app.js", "/images/x.webp",
           "/images/x.png", "/menu" }

Pathnames == [u \in Urls |-> ParsePathname(Chars(u))]

pathname(u) == Pathnames[u]

StaticAssetChars == { Chars(a) : a \in Range(STATIC_ASSETS) }

ApiEndpointCharSet == { ApiEndpointChars(e) : e \in Range(API_ENDPOINTS) }

\* /\.(ext|...)$/ : the path ends with a dot followed by one of the extensions
MatchesExtension(p, exts) == \E e \in exts : endsWith(p, <<".">> \o e)

StaticExtensions ==
    { <<"c","s","s">>, <<"j","s">>, <<"p","n","g">>, <<"j","p","g">>, <<"j","p","e","g">>,
      <<"g","i","f">>, <<"s","v","g">>, <<"w","o","f","f">>, <<"w","o","f","f","2">>,
      <<"t","t","f">>, <<"i","c","o">> }

ImageExtensions ==
    { <<"p","n","g">>, <<"j","p","g">>, <<"j","p","e","g">>, <<"g","i","f">>,
      <<"s","v","g">>, <<"w","e","b","p">> }

\* ------------------------------------------------------------ classifier
isStaticAsset(url) ==
    \/ \E a \in StaticAssetChars : endsWith(pathname(url), a)
    \/ MatchesExtension(pathname(url), StaticExtensions)

isAPIRequest(url) ==
    \/ startsWith(pathname(url), <<"/","a","p","i","/">>)
    \/ \E e \in ApiEndpointCharSet : startsWith(pathname(url), e)

isImageRequest(url) == MatchesExtension(pathname(url), ImageExtensions)

getCacheName(url) ==
    IF isStaticAsset(url) THEN STATIC_CACHE
    ELSE IF isAPIRequest(url) THEN API_CACHE
    ELSE DYNAMIC_CACHE

\* mutant: the API rule is tried before the static-asset rule
SelectStrategy_ApiFirst(url) ==
    IF isAPIRequest(url) THEN STALE_WHILE_REVALIDATE
    ELSE IF isStaticAsset(url) THEN CACHE_FIRST
    ELSE IF isImageRequest(url) THEN CACHE_FIRST
    ELSE NETWORK_FIRST

\* the fetch listener's choice of strategy for a GET request
SelectStrategy(url) ==
    IF isStaticAsset(url) THEN CACHE_FIRST
    ELSE IF isAPIRequest(url) THEN STALE_WHILE_REVALIDATE
    ELSE IF isImageRequest(url) THEN CACHE_FIRST
    ELSE NETWORK_FIRST

\* ------------------------------------------------------------- responses
\* the value a promise resolves to when there is no Response
Undefined ==
    [type |-> "undefined", status |-> 0, ctype |-> "", body |-> "", url |-> "", fetchId |-> 0]

\* a response of the network to fetch number id for url
NetworkResponse(url, status, id) ==
    [type |-> "network", status |-> status, ctype |-> "", body |-> "payload",
     url |-> url, fetchId |-> id]

\* Response.ok
ResponseOk(response) == response.status \in 200..299

OfflineDocument ==
    [type |-> "fallback", status |-> 200, ctype |-> "text/html", body |-> "Offline",
     url |-> "", fetchId |-> 0]

OfflineApiEnvelope ==
    [type |-> "fallback", status |-> 200, ctype |-> "application/json",
     body |-> "{error:Offline,message:This feature is not available offline,offline:true}",
     url |-> "", fetchId |-> 0]

getOfflineImageSVG == "<svg>Image Unavailable Offline</svg>"

OfflineImage ==
    [type |-> "fallback", status |-> 200, ctype |-> "image/svg+xml",
     body |-> getOfflineImageSVG, url |-> "", fetchId |-> 0]

OfflineUnavailable ==
    [type |-> "fallback", status |-> 503, ctype |-> "", body |-> "Offline",
     url |-> "", fetchId |-> 0]

\* ----------------------------------------------------------------- store
\* CacheStorage: the caches in creation order, each a map from request key
\* (method, url) to the stored response
NoEntries == [k \in {} |-> Undefined]

Key(method, url) == <<method, url>>

CacheNames(cs) == { cs[i].name : i \in DOMAIN cs }

CacheIndex(cs, name) == CHOOSE i \in DOMAIN cs : cs[i].name = name

\* caches.open(name): creates the cache when it does not exist
cachesOpen(cs, name) ==
    IF name \in CacheNames(cs) THEN cs
    ELSE Append(cs, [name |-> name, entries |-> NoEntries])

\* cache.match(key) on the cache called name
cacheMatch(cs, name, key) ==
    IF name \in CacheNames(cs) /\ key \in DOMAIN cs[CacheIndex(cs, name)].entries
        THEN cs[CacheIndex(cs, name)].entries[key]
        ELSE Undefined

\* caches.match(key): the first cache, in creation order, that holds the key
cachesMatch(cs, key) ==
    LET hits == { i \in DOMAIN cs : key \in DOMAIN cs[i].entries }
    IN  IF hits = {} THEN Undefined
        ELSE cs[CHOOSE i \in hits : \A j \in hits : i <= j].entries[key]

\* cache.put(key, response) on the cache called name
cachePut(cs, name, key, response) ==
    IF name \in CacheNames(cs)
        THEN [cs EXCEPT ![CacheIndex(cs, name)].entries = (key :> response) @@ @]
        ELSE cs

\* caches.delete(name)
cachesDelete(cs, name) == SelectSeq(cs, LAMBDA c : c.name # name)

\* cache.addAll(urls) once every fetch has succeeded: one entry per url
RECURSIVE cacheAddAll(_, _, _)
cacheAddAll(cs, name, urls) ==
    IF urls = <<>> THEN cs
    ELSE cacheAddAll(cachePut(cs, name, Key("GET", Head(urls)),
                              NetworkResponse(Head(urls), 200, 0)),
                     name, Tail(urls))

\* -------------------------------------------------------------- fallback
\* getOfflineFallback also opens the static cache for a navigation request
FallbackCaches(request, cs) ==
    IF request.mode = "navigate" THEN cachesOpen(cs, STATIC_CACHE) ELSE cs

\* mutant: the image branch is missing
getOfflineFallback_NoImage(request, cs) ==
    IF request.mode = "navigate"
        THEN cacheMatch(FallbackCaches(request, cs), STATIC_CACHE, Key("GET", "/index.html"))
    ELSE IF isAPIRequest(request.url) THEN OfflineApiEnvelope
    ELSE OfflineUnavailable

\* mutant: a stored copy of the request is preferred to the fixed responses
getOfflineFallback_StoredFirst(request, cs) ==
    IF request.mode = "navigate"
        THEN cacheMatch(FallbackCaches(request, cs), STATIC_CACHE, Key("GET", "/index.html"))
    ELSE IF cachesMatch(cs, Key(request.method, request.url)) # Undefined
        THEN cachesMatch(cs, Key(request.method, request.url))
    ELSE IF isAPIRequest(request.url) THEN OfflineApiEnvelope
    ELSE IF isImageRequest(request.url) THEN OfflineImage
    ELSE OfflineUnavailable

\* In the navigate branch the left operand of || is the promise returned by
\* cache.match, which is always truthy: the function returns that promise,
\* which resolves to the stored root document or to undefined.
getOfflineFallback(request, cs) ==
    IF request.mode = "navigate"
        THEN cacheMatch(FallbackCaches(request, cs), STATIC_CACHE, Key("GET", "/index.html"))
    ELSE IF isAPIRequest(request.url) THEN OfflineApiEnvelope
    ELSE IF isImageRequest(request.url) THEN OfflineImage
    ELSE OfflineUnavailable

\* ----------------------------------------------------------------- state
VARIABLES
    swState,    \* lifecycle state of the worker
    caches,     \* CacheStorage, in creation order
    toDelete,   \* activation: the cache names enumerated for deletion, not yet deleted
    reqs,       \* the fetch events dispatched so far, in order
    puts,       \* cache.put calls issued and not awaited, not yet completed
    nfetch,     \* network fetches issued by the strategies and by the cache refresh
    nsignal,    \* messages and sync events handled
    orders,     \* the offline orders kept in IndexedDB, oldest first
    syncRun,    \* the background sync in progress: its snapshot of the orders, its position
    posts,      \* the POSTs of orders issued so far: sync event, order, result
    syncLog     \* how each doBackgroundSync ended: its last console line

resync == <<orders, syncRun, posts, syncLog>>

vars == <<swState, caches, toDelete, reqs, puts, nfetch, nsignal, orders, syncRun, posts,
          syncLog>>

\* the requests the page issues
RequestInputs ==
    { [method |-> "GET", url |-> "/api/restaurants", mode |-> "cors"],
      [method |-> "GET", url |-> "/menu", mode |-> "navigate"],
      [method |-> "GET", url |-> "/images/x.webp", mode |-> "no-cors"],
      [method |-> "POST", url |-> "/api/orders", mode |-> "cors"] }

\* what the network does with one fetch: a response with a status, or a failure
Outcomes ==
    { [thrown |-> FALSE, status |-> 200],
      [thrown |-> FALSE, status |-> 404],
      [thrown |-> TRUE, status |-> 0] }

\* the url lists of CACHE_URLS messages
UrlLists == { << "/api/restaurants", "/menu" >> }

Messages ==
    { [type |-> "SKIP_WAITING", urls |-> <<>>], [type |-> "OTHER", urls |-> <<>>] }
    \cup { [type |-> "CACHE_URLS", urls |-> l] : l \in UrlLists }

\* caches a previous generation of the worker may have left behind
OldGenerations ==
    { <<>>,
      << [name |-> OLD_STATIC_CACHE,
          entries |-> (Key("GET", "/index.html") :> NetworkResponse("/index.html", 200, 0))] >> }

NoSyncRun == [active |-> FALSE, snapshot |-> <<>>, pos |-> 0, event |-> 0]

Init ==
    /\ swState = "installing"
    /\ caches \in OldGenerations
    /\ toDelete = {}
    /\ reqs = <<>>
    /\ puts = {}
    /\ nfetch = 0
    /\ nsignal = 0
    /\ orders = <<>>
    /\ syncRun = NoSyncRun
    /\ posts = <<>>
    /\ syncLog = <<>>

\* ------------------------------------------------------------- lifecycle
\* install listener: both caches are opened; addAll stores every asset or none
\* mutant: the assets are added one by one, so a failing install keeps the
\* assets fetched before the failure
Install_OneByOne(ok) ==
    /\ swState = "installing"
    /\ LET opened == cachesOpen(cachesOpen(caches, STATIC_CACHE), API_CACHE)
       IN  IF ok
             THEN /\ caches' = cacheAddAll(opened, STATIC_CACHE, STATIC_ASSETS)
                  /\ swState' = "installed"
             ELSE /\ caches' = cacheAddAll(opened, STATIC_CACHE, SubSeq(STATIC_ASSETS, 1, 2))
                  /\ swState' = "redundant"
    /\ UNCHANGED <<toDelete, reqs, puts, nfetch, nsignal>>
    /\ UNCHANGED resync

Install(ok) ==
    /\ swState = "installing"
    /\ LET opened == cachesOpen(cachesOpen(caches, STATIC_CACHE), API_CACHE)
       IN  IF ok
             THEN /\ caches' = cacheAddAll(opened, STATIC_CACHE, STATIC_ASSETS)
                  /\ swState' = "installed"
             ELSE /\ caches' = opened
                  /\ swState' = "redundant"
    /\ UNCHANGED <<toDelete, reqs, puts, nfetch, nsignal>>
    /\ UNCHANGED resync

CurrentCaches == { STATIC_CACHE, DYNAMIC_CACHE, API_CACHE }

\* mutant: every cache but the static one is taken for obsolete
ObsoleteCaches_AllButStatic(cs) == { n \in CacheNames(cs) : n # STATIC_CACHE }

\* activate listener: caches.keys() and the choice of the caches to delete
ObsoleteCaches(cs) == { n \in CacheNames(cs) : n \notin CurrentCaches }

ActivateStart ==
    /\ swState = "installed"
    /\ swState' = "activating"
    /\ toDelete' = ObsoleteCaches(caches)
    /\ UNCHANGED <<caches, reqs, puts, nfetch, nsignal>>
    /\ UNCHANGED resync

DeleteOldCache(n) ==
    /\ swState = "activating"
    /\ n \in toDelete
    /\ caches' = cachesDelete(caches, n)
    /\ toDelete' = toDelete \ {n}
    /\ UNCHANGED <<swState, reqs, puts, nfetch, nsignal>>
    /\ UNCHANGED resync

\* mutant: clients.claim() does not wait for the deletions
ActivateDone_Early ==
    /\ swState = "activating"
    /\ swState' = "activated"
    /\ UNCHANGED <<caches, toDelete, reqs, puts, nfetch, nsignal>>
    /\ UNCHANGED resync

\* Promise.all of the deletions has resolved: clients.claim()
ActivateDone ==
    /\ swState = "activating"
    /\ toDelete = {}
    /\ swState' = "activated"
    /\ UNCHANGED <<caches, toDelete, reqs, puts, nfetch, nsignal>>
    /\ UNCHANGED resync

\* ------------------------------------------------------ request handling
\* mutant: the listener handles requests of every method
ShouldHandle_All(request) == TRUE

\* fetch listener: requests of any method but GET are left to the browser
ShouldHandle(request) == request.method = "GET"

\* a fetch event's record: the request, the strategy chosen, the handler's
\* locals (cachedResponse, networkResponse), the state of its network fetch
\* and the response passed to respondWith
NewRequest(request, strategy) ==
    [method |-> request.method, url |-> request.url, mode |-> request.mode,
     strategy |-> strategy, state |-> "pending", cachedResponse |-> Undefined,
     net |-> "none", fetchId |-> 0, networkResponse |-> Undefined,
     response |-> Undefined, storeOps |-> 0]

PendingPut(name, key, response) == [cache |-> name, key |-> key, response |-> response]

\* mutant: the response is written whatever its status
ShouldStore_Always(networkResponse) == TRUE

\* networkResponse.ok guards the write of a response to the cache
ShouldStore(networkResponse) == ResponseOk(networkResponse)

\* cacheFirst up to its network fetch: caches.match over all caches
cacheFirstStart(request) ==
    LET rec == NewRequest(request, CACHE_FIRST)
        cachedResponse == cachesMatch(caches, Key(request.method, request.url))
    IN  /\ IF cachedResponse # Undefined
             THEN /\ reqs' = Append(reqs, [rec EXCEPT !.cachedResponse = cachedResponse,
                                                      !.response = cachedResponse,
                                                      !.state = "responded",
                                                      !.storeOps = 1])
                  /\ nfetch' = nfetch
             ELSE /\ reqs' = Append(reqs, [rec EXCEPT !.net = "inflight",
                                                      !.fetchId = nfetch + 1,
                                                      !.storeOps = 1])
                  /\ nfetch' = nfetch + 1
        /\ UNCHANGED <<caches, puts>>

\* networkFirst up to its network fetch
networkFirstStart(request) ==
    /\ reqs' = Append(reqs, [NewRequest(request, NETWORK_FIRST) EXCEPT
                                !.net = "inflight", !.fetchId = nfetch + 1])
    /\ nfetch' = nfetch + 1
    /\ UNCHANGED <<caches, puts>>

\* mutant: the entry is looked up in the wrong cache
swrCached_WrongCache(cs, request) ==
    cacheMatch(cs, DYNAMIC_CACHE, Key(request.method, request.url))

\* what staleWhileRevalidate hands to the caller before the network answers:
\* the entry of the request's own cache, if there is one
swrCached(cs, request) ==
    cacheMatch(cs, getCacheName(request.url), Key(request.method, request.url))

\* staleWhileRevalidate up to its return or its wait for the network
staleWhileRevalidateStart(request) ==
    LET rec == NewRequest(request, STALE_WHILE_REVALIDATE)
        opened == cachesOpen(caches, getCacheName(request.url))
        cachedResponse == swrCached(opened, request)
        fetching == [rec EXCEPT !.net = "inflight", !.fetchId = nfetch + 1,
                                !.cachedResponse = cachedResponse, !.storeOps = 2]
    IN  /\ caches' = opened
        /\ nfetch' = nfetch + 1
        /\ reqs' = Append(reqs,
                IF cachedResponse # Undefined
                    THEN [fetching EXCEPT !.response = cachedResponse, !.state = "responded"]
                    ELSE fetching)
        /\ UNCHANGED puts

handleRequest(request, strategy) ==
    CASE strategy = CACHE_FIRST -> cacheFirstStart(request)
      [] strategy = NETWORK_FIRST -> networkFirstStart(request)
      [] strategy = STALE_WHILE_REVALIDATE -> staleWhileRevalidateStart(request)
      [] OTHER -> networkFirstStart(request)

FetchEvent(request) ==
    /\ swState = "activated"
    /\ Len(reqs) < MaxRequests
    /\ IF ShouldHandle(request)
         THEN handleRequest(request, SelectStrategy(request.url))
         ELSE /\ reqs' = Append(reqs, [NewRequest(request, "none") EXCEPT !.state = "bypassed"])
              /\ UNCHANGED <<caches, puts, nfetch>>
    /\ UNCHANGED <<swState, toDelete, nsignal>>
    /\ UNCHANGED resync

\* cacheFirst and networkFirst after a response of the network: the write is
\* issued and not awaited, and the network response is returned whatever its status
StoreAndReturn(i, networkResponse) ==
    LET r == reqs[i]
        name == getCacheName(r.url)
        returned == [r EXCEPT !.net = IF ResponseOk(networkResponse) THEN "ok" ELSE "nonok",
                              !.networkResponse = networkResponse,
                              !.response = networkResponse,
                              !.state = "responded"]
    IN  IF ShouldStore(networkResponse)
          THEN /\ caches' = cachesOpen(caches, name)
               /\ puts' = puts \cup {PendingPut(name, Key(r.method, r.url), networkResponse)}
               /\ reqs' = [reqs EXCEPT ![i] = [returned EXCEPT !.storeOps = @ + 2]]
          ELSE /\ reqs' = [reqs EXCEPT ![i] = returned]
               /\ UNCHANGED <<caches, puts>>

\* mutant: the catch block answers with the generic 503 response
cacheFirstCatch_Unavailable(request, cs) == OfflineUnavailable

\* cacheFirst's catch block
cacheFirstCatch(request, cs) == getOfflineFallback(request, cs)

\* mutant: the catch block goes to the fallback without looking at the caches
networkFirstCatch_NoCache(request, cs) == getOfflineFallback(request, cs)

\* networkFirst's catch block: any cache, then the fallback
networkFirstCatch(request, cs) ==
    LET cachedResponse == cachesMatch(cs, Key(request.method, request.url))
    IN  IF cachedResponse # Undefined THEN cachedResponse
        ELSE getOfflineFallback(request, cs)

\* the value networkPromise settles to in staleWhileRevalidate: the .catch
\* handler only logs, so a failed fetch resolves the promise to undefined
swrSettled(thrown, networkResponse) == IF thrown THEN Undefined ELSE networkResponse

\* the network answers the fetch of request i
NetworkReply(i, outcome) ==
    /\ i \in DOMAIN reqs
    /\ reqs[i].net = "inflight"
    /\ LET r == reqs[i]
           networkResponse == NetworkResponse(r.url, outcome.status, r.fetchId)
       IN  CASE r.strategy = CACHE_FIRST ->
                  IF outcome.thrown
                    THEN /\ reqs' = [reqs EXCEPT ![i].net = "failed",
                                                 ![i].response = cacheFirstCatch(r, caches),
                                                 ![i].state = "responded"]
                         /\ caches' = FallbackCaches(r, caches)
                         /\ UNCHANGED puts
                    ELSE StoreAndReturn(i, networkResponse)
             [] r.strategy = NETWORK_FIRST ->
                  IF outcome.thrown
                    THEN /\ reqs' = [reqs EXCEPT ![i].net = "failed",
                                                 ![i].cachedResponse =
                                                     cachesMatch(caches, Key(r.method, r.url)),
                                                 ![i].response = networkFirstCatch(r, caches),
                                                 ![i].state = "responded",
                                                 ![i].storeOps = @ + 1]
                         /\ caches' = IF cachesMatch(caches, Key(r.method, r.url)) # Undefined
                                         THEN caches ELSE FallbackCaches(r, caches)
                         /\ UNCHANGED puts
                    ELSE StoreAndReturn(i, networkResponse)
             [] r.strategy = STALE_WHILE_REVALIDATE ->
                  LET settled == swrSettled(outcome.thrown, networkResponse)
                      net == IF outcome.thrown THEN "failed"
                             ELSE IF ResponseOk(networkResponse) THEN "ok" ELSE "nonok"
                      r1 == [r EXCEPT !.net = net,
                                      !.networkResponse =
                                          IF outcome.thrown THEN Undefined ELSE networkResponse]
                  IN  /\ puts' = IF ~outcome.thrown /\ ShouldStore(networkResponse)
                                   THEN puts \cup {PendingPut(getCacheName(r.url),
                                                              Key(r.method, r.url),
                                                              networkResponse)}
                                   ELSE puts
                      /\ reqs' = [reqs EXCEPT ![i] =
                                    IF r.state = "pending"
                                      THEN [r1 EXCEPT !.response = settled,
                                                      !.state = "responded"]
                                      ELSE r1]
                      /\ UNCHANGED caches
    /\ UNCHANGED <<swState, toDelete, nfetch, nsignal>>
    /\ UNCHANGED resync

\* a cache.put that was issued and not awaited completes
PutComplete(p) ==
    /\ p \in puts
    /\ caches' = cachePut(caches, p.cache, p.key, p.response)
    /\ puts' = puts \ {p}
    /\ UNCHANGED <<swState, toDelete, reqs, nfetch, nsignal>>
    /\ UNCHANGED resync

\* ------------------------------------------------- a store that rejects
\* The same handlers while Cache Storage rejects every call (caches.match,
\* caches.open, cache.match, cache.put): a request whose handler promise
\* rejects has state "rejected", and respondWith hands the caller an error.

\* the catch blocks of cacheFirst call getOfflineFallback, which for a
\* navigation opens the static cache: that call rejects too
fallbackWithoutStore(request) ==
    IF request.mode = "navigate" THEN Undefined ELSE getOfflineFallback(request, <<>>)

\* request record r answered from a catch block while the store rejects
AnsweredWithoutStore(r) ==
    IF r.mode = "navigate"
    THEN [r EXCEPT !.state = "rejected"]
    ELSE [r EXCEPT !.state = "responded", !.response = fallbackWithoutStore(r)]

FetchEventStoreFailing(request) ==
    /\ swState = "activated"
    /\ Len(reqs) < MaxRequests
    /\ ShouldHandle(request)
    /\ LET strategy == SelectStrategy(request.url)
       IN  CASE strategy = CACHE_FIRST ->
                  \* caches.match rejects: the catch block, no fetch
                  /\ reqs' = Append(reqs, AnsweredWithoutStore(
                                [NewRequest(request, CACHE_FIRST) EXCEPT !.storeOps = 1]))
                  /\ UNCHANGED <<caches, puts, nfetch>>
             [] strategy = STALE_WHILE_REVALIDATE ->
                  \* caches.open rejects outside any try: no fetch is issued
                  /\ reqs' = Append(reqs, [NewRequest(request, STALE_WHILE_REVALIDATE)
                                              EXCEPT !.state = "rejected", !.storeOps = 1])
                  /\ UNCHANGED <<caches, puts, nfetch>>
             [] OTHER -> networkFirstStart(request)
    /\ UNCHANGED <<swState, toDelete, nsignal>>
    /\ UNCHANGED resync

NetworkReplyStoreFailing(i, outcome) ==
    /\ i \in DOMAIN reqs
    /\ reqs[i].net = "inflight"
    /\ LET r == reqs[i]
           networkResponse == NetworkResponse(r.url, outcome.status, r.fetchId)
           net == IF outcome.thrown THEN "failed"
                  ELSE IF ResponseOk(networkResponse) THEN "ok" ELSE "nonok"
           r1 == [r EXCEPT !.net = net,
                           !.networkResponse =
                               IF outcome.thrown THEN Undefined ELSE networkResponse,
                           !.storeOps = @ + 1]
       IN  reqs' = [reqs EXCEPT ![i] =
              CASE net = "nonok" ->
                     \* no call of the store: the response is returned as it is
                     [r1 EXCEPT !.response = networkResponse,
                                !.state = IF r.state = "pending" THEN "responded" ELSE @]
                [] r.strategy = CACHE_FIRST ->
                     \* a thrown fetch, or caches.open rejecting: the catch block
                     AnsweredWithoutStore(r1)
                [] r.strategy = NETWORK_FIRST ->
                     \* the catch block calls caches.match, which rejects
                     [r1 EXCEPT !.state = "rejected"]
                [] OTHER ->
                     \* staleWhileRevalidate holds its cache already: the put
                     \* rejects unobserved, the promise settles as ever
                     IF r.state = "pending"
                       THEN [r1 EXCEPT !.response = swrSettled(outcome.thrown, networkResponse),
                                       !.state = "responded"]
                       ELSE r1]
    /\ UNCHANGED <<swState, caches, toDelete, puts, nfetch, nsignal>>
    /\ UNCHANGED resync

\* -------------------------------------------------------------- messages
\* mutant: each url goes to the cache getCacheName gives it
RECURSIVE cacheUrls_ByCacheName(_, _, _)
cacheUrls_ByCacheName(cs, urls, ok) ==
    IF ~ok \/ urls = <<>> THEN cachesOpen(cs, DYNAMIC_CACHE)
    ELSE LET name == getCacheName(urls[1])
         IN  cacheUrls_ByCacheName(
                 cacheAddAll(cachesOpen(cs, name), name, <<urls[1]>>), Tail(urls), ok)

\* cacheUrls: every url of the list goes to the dynamic cache, or none
cacheUrls(cs, urls, ok) ==
    IF ok THEN cacheAddAll(cachesOpen(cs, DYNAMIC_CACHE), DYNAMIC_CACHE, urls)
    ELSE cachesOpen(cs, DYNAMIC_CACHE)

Message(m, ok) ==
    /\ swState \in {"installing", "installed", "activating", "activated"}
    /\ nsignal < MaxSignals
    /\ nsignal' = nsignal + 1
    /\ caches' = IF m.type = "CACHE_URLS" THEN cacheUrls(caches, m.urls, ok) ELSE caches
    /\ UNCHANGED <<swState, toDelete, reqs, puts, nfetch>>
    /\ UNCHANGED resync

\* ------------------------------------------------------- background sync
\* The source leaves the IndexedDB helpers as stubs ("would use IndexedDB"):
\* here they read and update the stored orders as their comments and the
\* specification's Pending-Mutation Queue describe.  getOfflineAnalytics is
\* kept as the source has it: it returns the empty list, so the analytics
\* loop does nothing.
getOfflineOrders(db) == db

removeOfflineOrder(db, id) == SelectSeq(db, LAMBDA o : o # id)

\* mutant: the response of the refresh is written whatever its status
updateCachedData_Unchecked(outcome) ==
    LET response == NetworkResponse("/api/restaurants", outcome.status, nfetch + 1)
    IN  /\ nfetch' = nfetch + 1
        /\ IF ~outcome.thrown
             THEN /\ caches' = cachesOpen(caches, API_CACHE)
                  /\ puts' = puts \cup
                        {PendingPut(API_CACHE, Key("GET", "/api/restaurants"), response)}
             ELSE UNCHANGED <<caches, puts>>

updateCachedData(outcome) ==
    LET response == NetworkResponse("/api/restaurants", outcome.status, nfetch + 1)
    IN  /\ nfetch' = nfetch + 1
        /\ IF ~outcome.thrown /\ ResponseOk(response)
             THEN /\ caches' = cachesOpen(caches, API_CACHE)
                  /\ puts' = puts \cup
                        {PendingPut(API_CACHE, Key("GET", "/api/restaurants"), response)}
             ELSE UNCHANGED <<caches, puts>>

\* mutant: doBackgroundSync without its try/catch: an error of one of its
\* three steps rejects the promise handed to event.waitUntil
doBackgroundSync_NoCatch(outcome, readable) ==
    IF ~readable
    THEN /\ syncLog' = Append(syncLog, "rejected")
         /\ UNCHANGED <<caches, puts, nfetch, orders, syncRun, posts>>
    ELSE IF getOfflineOrders(orders) = <<>>
    THEN /\ updateCachedData(outcome)
         /\ syncLog' = Append(syncLog, "completed")
         /\ UNCHANGED <<orders, syncRun, posts>>
    ELSE /\ syncRun' = [active |-> TRUE, snapshot |-> getOfflineOrders(orders),
                        pos |-> 1, event |-> nsignal + 1]
         /\ UNCHANGED <<caches, puts, nfetch, orders, posts, syncLog>>

\* doBackgroundSync up to its first wait for the network.  When the orders
\* cannot be read, syncOfflineOrders throws into the one try/catch around the
\* three steps: the error is logged and nothing else is done.  With no order
\* stored both loops are empty and updateCachedData follows at once;
\* otherwise syncOfflineOrders starts on its snapshot of the orders.
doBackgroundSync(outcome, readable) ==
    IF ~readable
    THEN /\ syncLog' = Append(syncLog, "failed")
         /\ UNCHANGED <<caches, puts, nfetch, orders, syncRun, posts>>
    ELSE IF getOfflineOrders(orders) = <<>>
    THEN /\ updateCachedData(outcome)
         /\ syncLog' = Append(syncLog, "completed")
         /\ UNCHANGED <<orders, syncRun, posts>>
    ELSE /\ syncRun' = [active |-> TRUE, snapshot |-> getOfflineOrders(orders),
                        pos |-> 1, event |-> nsignal + 1]
         /\ UNCHANGED <<caches, puts, nfetch, orders, posts, syncLog>>

\* the sync event; readable: the stored orders can be read; budget is the
\* number of messages and sync events allowed
SyncEvent(tag, outcome, readable, budget) ==
    /\ swState = "activated"
    /\ ~syncRun.active
    /\ nsignal < budget
    /\ nsignal' = nsignal + 1
    /\ IF tag = "background-sync"
         THEN doBackgroundSync(outcome, readable)
         ELSE UNCHANGED <<caches, puts, nfetch, orders, syncRun, posts, syncLog>>
    /\ UNCHANGED <<swState, toDelete, reqs>>

Sync(tag, outcome) == SyncEvent(tag, outcome, TRUE, MaxSignals)

\* mutant: the order is removed once the POST was answered, whatever the status
AfterDelivery_OnAnswer(db, id, outcome) ==
    IF ~outcome.thrown THEN removeOfflineOrder(db, id) ELSE db

\* mutant: the order is removed whatever the answer to the POST
AfterDelivery_Always(db, id, outcome) == removeOfflineOrder(db, id)

\* what one iteration of the loop leaves stored: the order is removed when the
\* POST was answered with a 2xx status, and stays otherwise
AfterDelivery(db, id, outcome) ==
    IF ~outcome.thrown /\ outcome.status >= 200 /\ outcome.status <= 299
    THEN removeOfflineOrder(db, id)
    ELSE db

\* one iteration of the loop of syncOfflineOrders: POST the next order of the
\* snapshot; a thrown fetch, and a removal that fails (removed is FALSE), are
\* caught inside the loop
DeliverOrder(outcome, removed) ==
    /\ syncRun.active
    /\ syncRun.pos <= Len(syncRun.snapshot)
    /\ LET id == syncRun.snapshot[syncRun.pos]
       IN  /\ posts' = Append(posts, [event |-> syncRun.event, order |-> id,
                                      thrown |-> outcome.thrown, status |-> outcome.status])
           /\ orders' = IF removed THEN AfterDelivery(orders, id, outcome) ELSE orders
    /\ syncRun' = [syncRun EXCEPT !.pos = @ + 1]
    /\ UNCHANGED <<swState, caches, toDelete, reqs, puts, nfetch, nsignal, syncLog>>

\* the rest of doBackgroundSync once the loop is over: syncAnalyticsData has
\* nothing to send, updateCachedData refreshes one api key
FinishBackgroundSync(outcome) ==
    /\ syncRun.active
    /\ syncRun.pos > Len(syncRun.snapshot)
    /\ updateCachedData(outcome)
    /\ syncRun' = NoSyncRun
    /\ syncLog' = Append(syncLog, "completed")
    /\ UNCHANGED <<swState, toDelete, reqs, nsignal, orders, posts>>

\* ------------------------------------------------------------------ spec
Next ==
    \/ \E ok \in BOOLEAN : Install(ok)
    \/ ActivateStart
    \/ \E n \in toDelete : DeleteOldCache(n)
    \/ ActivateDone
    \/ \E request \in RequestInputs : FetchEvent(request)
    \/ \E i \in DOMAIN reqs, outcome \in Outcomes : NetworkReply(i, outcome)
    \/ \E p \in puts : PutComplete(p)
    \/ \E m \in Messages, ok \in BOOLEAN : Message(m, ok)
    \/ \E tag \in {"background-sync", "other"}, outcome \in Outcomes : Sync(tag, outcome)

Spec == Init /\ [][Next]_vars

\* the same worker with a single fetch event, drawn from every url the worker
\* knows, as a navigation and as a subresource request
WideInputs ==
    { [method |-> "GET", url |-> u, mode |-> m] : u \in Urls, m \in {"navigate", "no-cors"} }
    \cup { [method |-> "POST", url |-> "/api/orders", mode |-> "cors"] }

NextOneRequest ==
    \/ \E ok \in BOOLEAN : Install(ok)
    \/ ActivateStart
    \/ \E n \in toDelete : DeleteOldCache(n)
    \/ ActivateDone
    \/ \E request \in WideInputs : reqs = <<>> /\ FetchEvent(request)
    \/ \E i \in DOMAIN reqs, outcome \in Outcomes : NetworkReply(i, outcome)
    \/ \E p \in puts : PutComplete(p)
    \/ \E m \in Messages, ok \in BOOLEAN : Message(m, ok)
    \/ \E tag \in {"background-sync", "other"}, outcome \in Outcomes : Sync(tag, outcome)

SpecOneRequest == Init /\ [][NextOneRequest]_vars


\* ------------------------------------------- a later lifetime of the worker
\* The worker is stopped when idle and its script is evaluated again for the
\* next event: the registration is active, and Cache Storage holds what the
\* origin holds by then, either what the install left or nothing at all
\* once the site's cache storage has been cleared.
InstalledStore ==
    cacheAddAll(cachesOpen(cachesOpen(<<>>, STATIC_CACHE), API_CACHE),
                STATIC_CACHE, STATIC_ASSETS)

PersistedStores == {InstalledStore, <<>>}

InitRestart ==
    /\ swState = "activated"
    /\ caches \in PersistedStores
    /\ toDelete = {}
    /\ reqs = <<>>
    /\ puts = {}
    /\ nfetch = 0
    /\ nsignal = 0
    /\ orders = <<>>
    /\ syncRun = NoSyncRun
    /\ posts = <<>>
    /\ syncLog = <<>>

NextRestart ==
    \/ \E request \in WideInputs : reqs = <<>> /\ FetchEvent(request)
    \/ \E i \in DOMAIN reqs, outcome \in Outcomes : NetworkReply(i, outcome)
    \/ \E p \in puts : PutComplete(p)
    \/ \E m \in Messages, ok \in BOOLEAN : Message(m, ok)
    \/ \E tag \in {"background-sync", "other"}, outcome \in Outcomes : Sync(tag, outcome)

SpecRestart == InitRestart /\ [][NextRestart]_vars

\* ------------------------------------------------ sync with orders waiting
QueuedOrders == {<<"A", "B", "C">>, <<"A">>}

InitResync ==
    /\ swState = "activated"
    /\ caches = InstalledStore
    /\ toDelete = {}
    /\ reqs = <<>>
    /\ puts = {}
    /\ nfetch = 0
    /\ nsignal = 0
    /\ orders \in QueuedOrders
    /\ syncRun = NoSyncRun
    /\ posts = <<>>
    /\ syncLog = <<>>

NextResync ==
    \/ \E tag \in {"background-sync", "other"}, outcome \in Outcomes :
          SyncEvent(tag, outcome, TRUE, MaxSyncRuns)
    \/ \E outcome \in Outcomes : DeliverOrder(outcome, TRUE)
    \/ \E outcome \in Outcomes : FinishBackgroundSync(outcome)
    \/ \E p \in puts : PutComplete(p)

SpecResync == InitResync /\ [][NextResync]_vars

\* ------------------------------------------- a network that never answers
\* every step of the worker is taken when it can be; the network's answer to
\* a fetch of a strategy is the one step that never comes
NextSilentNetwork ==
    \/ \E ok \in BOOLEAN : Install(ok)
    \/ ActivateStart
    \/ \E n \in toDelete : DeleteOldCache(n)
    \/ ActivateDone
    \/ \E request \in RequestInputs : FetchEvent(request)
    \/ \E p \in puts : PutComplete(p)
    \/ \E m \in Messages, ok \in BOOLEAN : Message(m, ok)
    \/ \E tag \in {"background-sync", "other"}, outcome \in Outcomes : Sync(tag, outcome)

SpecSilentNetwork == Init /\ [][NextSilentNetwork]_vars /\ WF_vars(NextSilentNetwork)

\* ------------------------------ sync while the stored orders misbehave
\* the orders may be unreadable when a sync event arrives, and the removal of
\* a delivered order may fail
InitResyncFaulty ==
    /\ swState = "activated"
    /\ caches = InstalledStore
    /\ toDelete = {}
    /\ reqs = <<>>
    /\ puts = {}
    /\ nfetch = 0
    /\ nsignal = 0
    /\ orders = <<"A", "B">>
    /\ syncRun = NoSyncRun
    /\ posts = <<>>
    /\ syncLog = <<>>

NextResyncFaulty ==
    \/ \E outcome \in Outcomes, readable \in BOOLEAN :
          SyncEvent("background-sync", outcome, readable, MaxSyncRuns)
    \/ \E outcome \in Outcomes, removed \in BOOLEAN : DeliverOrder(outcome, removed)
    \/ \E outcome \in Outcomes : FinishBackgroundSync(outcome)
    \/ \E p \in puts : PutComplete(p)

SpecResyncFaulty == InitResyncFaulty /\ [][NextResyncFaulty]_vars

\* ------------------------------------ requests while the store may reject
NextStoreFailing ==
    \/ \E request \in RequestInputs : FetchEvent(request)
    \/ \E request \in RequestInputs : FetchEventStoreFailing(request)
    \/ \E i \in DOMAIN reqs, outcome \in Outcomes : NetworkReply(i, outcome)
    \/ \E i \in DOMAIN reqs, outcome \in Outcomes : NetworkReplyStoreFailing(i, outcome)
    \/ \E p \in puts : PutComplete(p)

SpecStoreFailing == InitRestart /\ [][NextStoreFailing]_vars


\* ================================================================ claims
Requests == DOMAIN reqs

\* the indices of the caches that hold key
Holders(cs, key) == { c \in DOMAIN cs : key \in DOMAIN cs[c].entries }

\* the responses stored under key in cache name (none or one)
StoredIn(cs, name, key) ==
    { cs[c].entries[key] : c \in { h \in Holders(cs, key) : cs[h].name = name } }

\* C1: every foreground caller of a caching strategy receives a Response (a
\* network response, a stored entry or a fallback), never an absent value.
C1_CallerGetsResponse ==
    \A i \in Requests :
        reqs[i].state = "responded" => reqs[i].response.type \in {"network", "fallback"}

\* C2: stale-while-revalidate without a stored entry, whose fetch fails, gives
\* the caller the fallback (the offline JSON envelope for an API request).
C2_SwrMissFailureGetsFallback ==
    \A i \in Requests :
        /\ reqs[i].strategy = STALE_WHILE_REVALIDATE
        /\ reqs[i].cachedResponse = Undefined
        /\ reqs[i].net = "failed"
        => /\ reqs[i].state = "responded"
           /\ reqs[i].response.type = "fallback"
           /\ reqs[i].mode # "navigate" => reqs[i].response = OfflineApiEnvelope

\* C3: stale-while-revalidate with a stored entry: the caller receives exactly
\* the stored entry while a fetch is issued in the same invocation; when that
\* fetch succeeds its result is put to the api cache and, once the put has
\* completed, is what the cache returns for the key; when it does not succeed
\* the response already given, the caches and the pending puts stay as they are.
C3_SwrStep ==
    /\ \A i \in DOMAIN reqs' \ Requests :
          LET r == reqs'[i]
              stored == StoredIn(caches, API_CACHE, Key(r.method, r.url))
          IN  r.strategy = STALE_WHILE_REVALIDATE /\ stored # {}
              => /\ r.state = "responded"
                 /\ r.response \in stored
                 /\ r.net = "inflight"
    /\ \A i \in Requests :
          LET r == reqs[i]
              s == reqs'[i]
          IN  /\ r.strategy = STALE_WHILE_REVALIDATE
              /\ r.cachedResponse # Undefined
              /\ r.net = "inflight"
              /\ s.net # "inflight"
              => /\ s.state = "responded"
                 /\ s.response = r.response
                 /\ s.net = "ok" =>
                       /\ s.networkResponse.fetchId = r.fetchId
                       /\ ResponseOk(s.networkResponse)
                       /\ PendingPut(API_CACHE, Key(r.method, r.url), s.networkResponse)
                              \in puts'
                 /\ s.net # "ok" => caches' = caches /\ puts' = puts
    /\ \A p \in puts \ puts' : StoredIn(caches', p.cache, p.key) = {p.response}

C3_SwrServesStoredAndRefreshes == [][C3_SwrStep]_vars

\* a caller was served the stored entry, the fetch issued for it succeeded and
\* its result is now the entry of the api cache
C3_Witness ==
    \E i \in Requests :
        /\ reqs[i].strategy = STALE_WHILE_REVALIDATE
        /\ reqs[i].cachedResponse # Undefined
        /\ reqs[i].response = reqs[i].cachedResponse
        /\ reqs[i].net = "ok"
        /\ reqs[i].response # reqs[i].networkResponse
        /\ StoredIn(caches, API_CACHE, Key("GET", reqs[i].url)) = {reqs[i].networkResponse}

\* C4: once a cache-first request for a key has fetched a successful response
\* from the network, a later cache-first request for the same key is answered
\* without a network fetch.
C4_NoSecondFetchStep ==
    \A j \in DOMAIN reqs' \ Requests :
        /\ reqs'[j].strategy = CACHE_FIRST
        /\ \E i \in Requests :
              /\ reqs[i].strategy = CACHE_FIRST
              /\ reqs[i].url = reqs'[j].url
              /\ reqs[i].method = reqs'[j].method
              /\ reqs[i].net = "ok"
              /\ reqs[i].state = "responded"
        => /\ reqs'[j].net = "none"
           /\ nfetch' = nfetch

C4_NoSecondFetch == [][C4_NoSecondFetchStep]_vars

\* C5: network-first: a successful fetch gives the caller the fresh response and
\* issues its write under the request key; a failed fetch gives the caller an
\* entry stored under the key if any cache holds one, and the fallback only if
\* none does; a completed write leaves the response in the cache.
C5_NetworkFirstStep ==
    /\ \A i \in Requests :
          LET r == reqs[i]
              s == reqs'[i]
              key == Key(r.method, r.url)
              holders == Holders(caches, key)
          IN  r.strategy = NETWORK_FIRST /\ r.net = "inflight" /\ s.net # "inflight"
              => /\ s.state = "responded"
                 /\ s.net = "ok" =>
                       /\ s.response.type = "network"
                       /\ s.response.url = r.url
                       /\ s.response.fetchId = r.fetchId
                       /\ ResponseOk(s.response)
                       /\ \E p \in puts' \ puts : p.key = key /\ p.response = s.response
                 /\ s.net = "failed" /\ holders # {} =>
                       \E c \in holders : s.response = caches[c].entries[key]
                 /\ s.net = "failed" /\ holders = {} =>
                       s.response = getOfflineFallback(r, caches)
    /\ \A p \in puts \ puts' : StoredIn(caches', p.cache, p.key) = {p.response}

C5_NetworkFirst == [][C5_NetworkFirstStep]_vars

\* a network-first request whose fetch failed was answered with the entry that
\* an earlier network-first request had fetched and stored
C5_Witness ==
    \E i, j \in Requests :
        /\ i < j
        /\ reqs[i].strategy = NETWORK_FIRST /\ reqs[i].net = "ok"
        /\ reqs[i].response = reqs[i].networkResponse
        /\ reqs[j].strategy = NETWORK_FIRST /\ reqs[j].net = "failed"
        /\ reqs[j].response = reqs[i].networkResponse

\* C6 as stated: a network response with a non-success status is never what
\* the caller receives.
C6_NonOkNeverReturned ==
    \A i \in Requests :
        reqs[i].state = "responded" /\ reqs[i].net = "nonok"
        => reqs[i].response # reqs[i].networkResponse

\* C6 as amended: a network response with a non-success status is never written
\* to a cache, and it is what the caller receives unless the caller was already
\* given the stored entry by stale-while-revalidate.
C6_NonOkReturnedNotStored ==
    \A i \in Requests :
        reqs[i].net = "nonok"
        => /\ reqs[i].state = "responded"
           /\ ~ResponseOk(reqs[i].networkResponse)
           /\ reqs[i].response = IF reqs[i].cachedResponse # Undefined
                                   THEN reqs[i].cachedResponse
                                   ELSE reqs[i].networkResponse
           /\ \A p \in puts : p.response # reqs[i].networkResponse
           /\ \A c \in DOMAIN caches : \A k \in DOMAIN caches[c].entries :
                 caches[c].entries[k] # reqs[i].networkResponse

\* a caller that waited for the network received its non-success response
C6_Witness ==
    \E i \in Requests :
        /\ reqs[i].net = "nonok"
        /\ reqs[i].state = "responded"
        /\ reqs[i].response = reqs[i].networkResponse
        /\ reqs[i].response.status = 404

\* C7: no request key has an entry in more than one of the three current
\* partitions, and the partition that holds a key is the one the classifier
\* assigns to it.
C7_OnePartitionPerKey ==
    \A c \in DOMAIN caches :
        caches[c].name \in CurrentCaches
        => \A k \in DOMAIN caches[c].entries :
              /\ caches[c].name = getCacheName(k[2])
              /\ \A d \in DOMAIN caches :
                    caches[d].name \in CurrentCaches /\ k \in DOMAIN caches[d].entries
                    => d = c

\* C8: a request whose method is not GET is not handed to a strategy: no store
\* operation, no fetch by the worker and no substitute response; every entry
\* stored and every write issued is keyed by a GET request.
C8_NonGetBypasses ==
    /\ \A i \in Requests :
          reqs[i].method # "GET"
          => /\ reqs[i].state = "bypassed"
             /\ reqs[i].strategy = "none"
             /\ reqs[i].storeOps = 0
             /\ reqs[i].net = "none"
             /\ reqs[i].response = Undefined
    /\ \A p \in puts : p.key[1] = "GET"
    /\ \A c \in DOMAIN caches : \A k \in DOMAIN caches[c].entries : k[1] = "GET"

\* a POST was dispatched and left alone while a GET handled before it has its
\* response stored
C8_Witness ==
    /\ \E i \in Requests : reqs[i].method = "POST" /\ reqs[i].state = "bypassed"
    /\ \E c \in DOMAIN caches : \E k \in DOMAIN caches[c].entries :
          caches[c].entries[k].fetchId > 0

\* C9: the strategy of a GET request is that of the first matching rule in the
\* order static asset, API, image, none; it is a function of the url alone.
C9_StrategyByFirstMatch ==
    \A i \in Requests :
        LET u == reqs[i].url
        IN  reqs[i].method = "GET"
            => /\ isStaticAsset(u) => reqs[i].strategy = CACHE_FIRST
               /\ ~isStaticAsset(u) /\ isAPIRequest(u)
                     => reqs[i].strategy = STALE_WHILE_REVALIDATE
               /\ ~isStaticAsset(u) /\ ~isAPIRequest(u) /\ isImageRequest(u)
                     => reqs[i].strategy = CACHE_FIRST
               /\ ~isStaticAsset(u) /\ ~isAPIRequest(u) /\ ~isImageRequest(u)
                     => reqs[i].strategy = NETWORK_FIRST

\* a url that the static-asset rule and the API rule both match is served
\* cache-first
C9_Witness ==
    \E i \in Requests :
        /\ reqs[i].method = "GET"
        /\ isStaticAsset(reqs[i].url) /\ isAPIRequest(reqs[i].url)
        /\ reqs[i].strategy = CACHE_FIRST

\* the partition of the classifier rules: static asset, API, image, none
ClassifierPartition(url) ==
    IF isStaticAsset(url) THEN STATIC_CACHE
    ELSE IF isAPIRequest(url) THEN API_CACHE
    ELSE IF isImageRequest(url) THEN STATIC_CACHE
    ELSE DYNAMIC_CACHE

\* C10: the partition a strategy writes to is the one of the classifier rule
\* that selected the strategy; a url that only the image rule matches is
\* written to the static partition.
C10_WritesToClassifierPartition ==
    \A p \in puts : p.cache = ClassifierPartition(p.key[2])


\* the step dispatches the second fetch event, a GET of /api/restaurants,
\* after the first one, a miss of stale-while-revalidate for the same key,
\* was answered with the 2xx network response it fetched, and nothing else
\* has reached the worker
C11_SecondRequestStep ==
    /\ Len(reqs) = 1
    /\ Len(reqs') = 2
    /\ nsignal = 0
    /\ reqs[1].url = "/api/restaurants"
    /\ reqs[1].strategy = STALE_WHILE_REVALIDATE
    /\ reqs[1].cachedResponse = Undefined
    /\ reqs[1].state = "responded"
    /\ reqs[1].net = "ok"
    /\ reqs[1].response = reqs[1].networkResponse
    /\ reqs'[2].url = "/api/restaurants"
    /\ reqs'[2].method = "GET"

\* C11: after a first GET /api/restaurants on an empty store returned the 2xx
\* network payload P, P is stored, so a second request for the same key is
\* answered with P from the store, whatever the network then does.
C11_SecondRequestServedFromStore ==
    [][C11_SecondRequestStep =>
          /\ StoredIn(caches, API_CACHE, Key("GET", "/api/restaurants"))
                = {reqs[1].response}
          /\ reqs'[2].state = "responded"
          /\ reqs'[2].response = reqs[1].response]_vars

\* the step at which the fetch of navigation request i fails and the request
\* is answered by the fallback: cacheFirst's catch block, or networkFirst's
\* when no cache holds the request
NavigationFallbackStep(i) ==
    /\ i \in DOMAIN reqs
    /\ reqs[i].mode = "navigate"
    /\ reqs[i].net = "inflight"
    /\ reqs'[i].net = "failed"
    /\ \/ reqs[i].strategy = CACHE_FIRST
       \/ /\ reqs[i].strategy = NETWORK_FIRST
          /\ Holders(caches, Key(reqs[i].method, reqs[i].url)) = {}

\* C12: a navigation request answered by the fallback gets the root document
\* stored in the static partition when there is one and the minimal offline
\* document, status 200, otherwise; never an absent value.
C12_NavigationFallback ==
    [][\A i \in DOMAIN reqs :
          NavigationFallbackStep(i) =>
              LET stored == StoredIn(caches, STATIC_CACHE, Key("GET", "/index.html"))
              IN  /\ reqs'[i].state = "responded"
                  /\ reqs'[i].response # Undefined
                  /\ reqs'[i].response \in (IF stored # {} THEN stored ELSE {OfflineDocument})
      ]_vars

\* request i was answered by the fallback: its fetch failed in cacheFirst
\* (which fetches only after a miss) or in networkFirst with nothing stored
FallbackAnswered(i) ==
    /\ reqs[i].state = "responded"
    /\ reqs[i].net = "failed"
    /\ reqs[i].strategy \in {CACHE_FIRST, NETWORK_FIRST}
    /\ reqs[i].cachedResponse = Undefined

\* C13 as stated: the fallback of a request that is no navigation follows the
\* classifier: the JSON envelope for a request of the api partition, the
\* placeholder image for an image request, the 503 response for the rest.
C13_FallbackFollowsClassifier ==
    \A i \in Requests :
        FallbackAnswered(i) /\ reqs[i].mode # "navigate" =>
            reqs[i].response =
                IF ClassifierPartition(reqs[i].url) = API_CACHE THEN OfflineApiEnvelope
                ELSE IF isImageRequest(reqs[i].url) THEN OfflineImage
                ELSE OfflineUnavailable

\* C13 (amended): the fallback of a request that is no navigation follows the
\* url alone: the JSON envelope when the path is under /api/, whatever
\* partition the classifier assigns, else the placeholder image for an image
\* extension, else the 503 response.
C13_FallbackFollowsUrl ==
    \A i \in Requests :
        FallbackAnswered(i) /\ reqs[i].mode # "navigate" =>
            /\ reqs[i].response.type = "fallback"
            /\ reqs[i].response =
                IF isAPIRequest(reqs[i].url) THEN OfflineApiEnvelope
                ELSE IF isImageRequest(reqs[i].url) THEN OfflineImage
                ELSE OfflineUnavailable
            /\ reqs[i].response.status = (IF isAPIRequest(reqs[i].url)
                                            \/ isImageRequest(reqs[i].url)
                                          THEN 200 ELSE 503)

\* a request of the static partition whose path is under /api/ was answered
\* with the JSON envelope, and an image request with the placeholder
C13_Witness ==
    \E i \in Requests :
        /\ FallbackAnswered(i)
        /\ reqs[i].mode # "navigate"
        /\ reqs[i].url = "/api/app.js"
        /\ ClassifierPartition(reqs[i].url) = STATIC_CACHE
        /\ reqs[i].response = OfflineApiEnvelope

\* the branch of getOfflineFallback a request takes
Category(request) ==
    IF request.mode = "navigate" THEN "navigation"
    ELSE IF isAPIRequest(request.url) THEN "api"
    ELSE IF isImageRequest(request.url) THEN "image"
    ELSE "other"

\* C14 as stated: the fallback depends on the category of the request alone:
\* what a request was answered with is what any request of the same category
\* is answered with on any store.
C14_FallbackByCategoryAlone ==
    \A i \in Requests :
        FallbackAnswered(i) =>
            \A request \in WideInputs, cs \in PersistedStores \cup {caches} :
                Category(request) = Category(reqs[i])
                    => getOfflineFallback(request, cs) = reqs[i].response

\* C14 (amended): for the categories api, image and other the fallback depends
\* on the category alone; the navigation fallback is the stored root document
\* and so depends on the store.
C14_FixedFallbackByCategory ==
    \A i \in Requests :
        FallbackAnswered(i) /\ reqs[i].mode # "navigate" =>
            \A request \in WideInputs, cs \in PersistedStores \cup {caches} :
                Category(request) = Category(reqs[i])
                    => getOfflineFallback(request, cs) = reqs[i].response

\* an image request was answered by the fallback on a store that is not the
\* installed one, and another image url gets the same answer on the installed
\* store, where that url is stored
C14_Witness ==
    \E i \in Requests :
        /\ FallbackAnswered(i)
        /\ reqs[i].url = "/images/x.png"
        /\ reqs[i].mode # "navigate"
        /\ caches # InstalledStore
        /\ LET request == [method |-> "GET", url |-> "/assets/favicon-32x32.png",
                           mode |-> "no-cors"]
           IN  /\ request \in WideInputs
               /\ Holders(InstalledStore, Key("GET", request.url)) # {}
               /\ getOfflineFallback(request, InstalledStore) = reqs[i].response

\* C15: an image request that is no navigation, not stored, whose fetch fails,
\* is answered with the fixed placeholder image, status 200, and not with an
\* error or the 503 response; nothing is written to the store.
C15_ImageMissOffline ==
    [][\A i \in DOMAIN reqs :
          /\ reqs[i].strategy = CACHE_FIRST
          /\ isImageRequest(reqs[i].url)
          /\ ~isAPIRequest(reqs[i].url)
          /\ reqs[i].mode # "navigate"
          /\ reqs[i].net = "inflight"
          /\ reqs'[i].net = "failed"
          => /\ reqs'[i].state = "responded"
             /\ reqs'[i].response = OfflineImage
             /\ reqs'[i].response.type = "fallback"
             /\ reqs'[i].response.status = 200
             /\ reqs'[i].response.body = getOfflineImageSVG
             /\ caches' = caches
             /\ puts' = puts
      ]_vars

\* GET /images/x.png on the empty store was answered with the placeholder and
\* the store is still empty
C15_Witness ==
    \E i \in Requests :
        /\ reqs[i].url = "/images/x.png"
        /\ reqs[i].mode # "navigate"
        /\ reqs[i].net = "failed"
        /\ reqs[i].response = OfflineImage
        /\ caches = <<>>
        /\ puts = {}

\* the manifest entries the static partition of store cs holds
ManifestStored(cs) ==
    LET static == { c \in DOMAIN cs : cs[c].name = STATIC_CACHE }
    IN  { a \in Range(STATIC_ASSETS) :
             \E c \in static : Key("GET", a) \in DOMAIN cs[c].entries }

\* C16: the install is atomic: it either completes with every manifest entry
\* stored in the static partition, or fails (the worker is redundant, is
\* never activated and handles no fetch event) with none of them stored.
C16_InstallAtomic ==
    /\ swState \in {"installed", "activating", "activated"}
          => ManifestStored(caches) = Range(STATIC_ASSETS)
    /\ swState \in {"installing", "redundant"} =>
          /\ ManifestStored(caches) = {}
          /\ reqs = <<>>
          /\ toDelete = {}
          /\ puts = {}

\* an install failed: the worker is redundant and the static partition,
\* opened by the install, holds nothing
C16_Witness ==
    /\ swState = "redundant"
    /\ STATIC_CACHE \in CacheNames(caches)
    /\ ManifestStored(caches) = {}
    /\ reqs = <<>>

\* C17: activation deletes exactly the caches whose name is none of the three
\* current names, and leaves the three current caches and their entries as
\* they are: of static-v1, dynamic-v1, api-v1 and static-v0 only static-v0
\* is removed.
C17_ActivationDeletesOnlyOld ==
    [][/\ swState = "installed" /\ swState' = "activating" =>
            /\ toDelete' = CacheNames(caches) \ {STATIC_CACHE, DYNAMIC_CACHE, API_CACHE}
            /\ caches' = caches
       /\ swState = "activating" /\ toDelete' # toDelete =>
            \E n \in toDelete :
                /\ n \notin {STATIC_CACHE, DYNAMIC_CACHE, API_CACHE}
                /\ toDelete' = toDelete \ {n}
                /\ CacheNames(caches') = CacheNames(caches) \ {n}
                /\ \A i \in DOMAIN caches :
                      caches[i].name # n => \E j \in DOMAIN caches' : caches'[j] = caches[i]
                /\ Len(caches') = Len(caches) - 1
       /\ swState = "activating" /\ swState' = "activated" =>
            /\ caches' = caches
            /\ CacheNames(caches) \subseteq {STATIC_CACHE, DYNAMIC_CACHE, API_CACHE}
            /\ ManifestStored(caches) = Range(STATIC_ASSETS)
      ]_vars

\* activation has enumerated the four caches of the example and has chosen
\* static-v0 alone
C17_Witness ==
    /\ swState = "activating"
    /\ CacheNames(caches) = {STATIC_CACHE, DYNAMIC_CACHE, API_CACHE, OLD_STATIC_CACHE}
    /\ toDelete = {OLD_STATIC_CACHE}

\* the POSTs of sync event ev, in the order they were issued
PostedIn(ev) == SelectSeq(posts, LAMBDA p : p.event = ev)

\* the POST was answered with a 2xx status
Delivered(p) == ~p.thrown /\ p.status >= 200 /\ p.status <= 299

\* the orders of a sequence of POSTs
OrdersOf(ps) == [k \in DOMAIN ps |-> ps[k].order]

FailedAttempts(o) ==
    Cardinality({ k \in DOMAIN posts : posts[k].order = o /\ ~Delivered(posts[k]) })

C20_FetchTimesOut ==
    \A i \in 1..MaxRequests :
        (i \in DOMAIN reqs /\ reqs[i].state = "pending" /\ reqs[i].net = "inflight")
            ~> (i \in DOMAIN reqs /\ reqs[i].state = "responded")

\* the entries of cache name in store cs (none when the cache does not exist)
EntriesOf(cs, name) ==
    IF name \in CacheNames(cs) THEN cs[CacheIndex(cs, name)].entries ELSE NoEntries

\* the step handles a message: one more signal, no fetch of the refresh, no
\* sync started or logged
MessageStep ==
    /\ nsignal' = nsignal + 1
    /\ nfetch' = nfetch
    /\ syncRun' = syncRun
    /\ syncLog' = syncLog

\* C21: a CACHE_URLS message stores every url of its list in the dynamic
\* partition (or none of them when a fetch of the list fails) and changes no
\* entry of the static or api partition; any other message leaves every
\* partition as it is.
C21_MessageFrame ==
    [][MessageStep =>
          /\ \A name \in CacheNames(caches) \ {DYNAMIC_CACHE} :
                /\ name \in CacheNames(caches')
                /\ EntriesOf(caches', name) = EntriesOf(caches, name)
          /\ CacheNames(caches') \subseteq CacheNames(caches) \cup {DYNAMIC_CACHE}
          /\ \/ caches' = caches
             \/ EntriesOf(caches', DYNAMIC_CACHE) = EntriesOf(caches, DYNAMIC_CACHE)
             \/ \E urls \in UrlLists :
                   /\ \A k \in DOMAIN urls :
                         StoredIn(caches', DYNAMIC_CACHE, Key("GET", urls[k])) # {}
                   /\ \A key \in DOMAIN EntriesOf(caches', DYNAMIC_CACHE) :
                         \/ key \in { Key("GET", urls[k]) : k \in DOMAIN urls }
                         \/ /\ key \in DOMAIN EntriesOf(caches, DYNAMIC_CACHE)
                            /\ EntriesOf(caches', DYNAMIC_CACHE)[key]
                                  = EntriesOf(caches, DYNAMIC_CACHE)[key]
      ]_vars

\* a CACHE_URLS message has stored its list, an api url among it, in the
\* dynamic partition; the api partition holds none of it
C21_Witness ==
    /\ nsignal = 1
    /\ nfetch = 0
    /\ \A urls \in UrlLists : \A k \in DOMAIN urls :
          StoredIn(caches, DYNAMIC_CACHE, Key("GET", urls[k])) # {}
    /\ API_CACHE \in CacheNames(caches)
    /\ EntriesOf(caches, API_CACHE) = NoEntries

\* the step at which cacheFirst (after a miss) or networkFirst returns the
\* 2xx response of the network to the caller of request i
ReturnsNetworkResponse(i) ==
    /\ i \in DOMAIN reqs
    /\ reqs[i].strategy \in {CACHE_FIRST, NETWORK_FIRST}
    /\ reqs[i].state = "pending"
    /\ reqs'[i].state = "responded"
    /\ reqs'[i].net = "ok"
    /\ reqs'[i].response = reqs'[i].networkResponse

\* C22: when cacheFirst or networkFirst returns a 2xx network response, the
\* write of that response has completed: a read of the key right after the
\* return finds the response that was returned.
C22_WrittenBeforeReturn ==
    [][\A i \in DOMAIN reqs :
          ReturnsNetworkResponse(i) =>
              /\ cachesMatch(caches', Key(reqs[i].method, reqs[i].url)) = reqs'[i].response
              /\ \A p \in puts' : p.response # reqs'[i].response
      ]_vars

\* C23: a failure of the store never fails a request: no handler rejects; a
\* request answered without a stored entry has gone to the network (a failed
\* read counts as a miss); and a caller whose fetch got a 2xx response
\* receives that response, whether or not it could be written.
C23_StoreFailureHarmless ==
    \A i \in Requests :
        /\ reqs[i].state # "rejected"
        /\ reqs[i].state = "responded" /\ reqs[i].cachedResponse = Undefined
              => reqs[i].net # "none"
        /\ reqs[i].state = "responded" /\ reqs[i].net = "ok"
              /\ reqs[i].cachedResponse = Undefined
              => reqs[i].response = reqs[i].networkResponse

C26_ActiveAfterDeletions ==
    swState = "activated" =>
        /\ toDelete = {}
        /\ OLD_STATIC_CACHE \notin CacheNames(caches)
        /\ CacheNames(caches) \subseteq CurrentCaches

\* activation is under way with the deletion of static-v0 outstanding, and
\* the step to the active state cannot be taken
C26_Witness ==
    /\ swState = "activating"
    /\ toDelete = {OLD_STATIC_CACHE}
    /\ OLD_STATIC_CACHE \in CacheNames(caches)
    /\ ~ENABLED ActivateDone

\* C27: a hit of cacheFirst or networkFirst comes from the current cache the
\* classifier assigns to the request: the entry returned is the one that
\* cache holds, never one held only by another cache.
C27_HitFromClassifierPartition ==
    [][/\ Len(reqs') = Len(reqs) + 1 =>
            LET r == reqs'[Len(reqs')]
            IN  r.strategy = CACHE_FIRST /\ r.cachedResponse # Undefined =>
                    r.cachedResponse \in
                        StoredIn(caches, ClassifierPartition(r.url), Key(r.method, r.url))
       /\ \A i \in DOMAIN reqs :
             /\ reqs[i].strategy = NETWORK_FIRST
             /\ reqs[i].net = "inflight"
             /\ reqs'[i].net = "failed"
             /\ reqs'[i].cachedResponse # Undefined
             => reqs'[i].cachedResponse \in
                    StoredIn(caches, ClassifierPartition(reqs[i].url),
                             Key(reqs[i].method, reqs[i].url))
      ]_vars

\* C28: every key of the install manifest is classified static and served
\* cache-first: after the install a GET of a manifest key is answered with
\* the entry the install stored, without a fetch and without a write.
C28_ManifestServedFromInstall ==
    \A i \in Requests :
        reqs[i].method = "GET" /\ reqs[i].url \in Range(STATIC_ASSETS) =>
            /\ reqs[i].strategy = CACHE_FIRST
            /\ getCacheName(reqs[i].url) = STATIC_CACHE
            /\ reqs[i].state = "responded"
            /\ reqs[i].net = "none"
            /\ reqs[i].response = NetworkResponse(reqs[i].url, 200, 0)
            /\ \A p \in puts : p.key # Key("GET", reqs[i].url)

\* C29: whatever a strategy or the refresh of the api partition writes is a
\* 2xx response of the network: every stored entry and every write under way
\* is one; no other response, no fallback and no absent value is ever stored.
C29_OnlySuccessfulResponsesStored ==
    /\ \A c \in DOMAIN caches : \A key \in DOMAIN caches[c].entries :
          /\ caches[c].entries[key].type = "network"
          /\ caches[c].entries[key].status \in 200..299
          /\ caches[c].entries[key].url = key[2]
    /\ \A p \in puts :
          /\ p.response.type = "network"
          /\ p.response.status \in 200..299
          /\ p.response.url = p.key[2]

\* the refresh got no 2xx answer and wrote nothing, a request got a non-2xx
\* answer and nothing is stored for it, and another request's 2xx response has
\* been stored
C29_Witness ==
    /\ nsignal = 1
    /\ \E i \in Requests : reqs[i].net = "nonok" /\ reqs[i].fetchId = 1
    /\ \E j \in Requests :
          /\ reqs[j].net = "ok"
          /\ reqs[j].url = "/menu"
          /\ reqs[j].networkResponse
                \in StoredIn(caches, DYNAMIC_CACHE, Key("GET", "/menu"))
    /\ nfetch = 3
    /\ puts = {}
    /\ \A c \in DOMAIN caches : \A key \in DOMAIN caches[c].entries :
          caches[c].entries[key].fetchId \in {0, 2}

====
